---- MODULE Spec2Model ----
(***************************************************************************)
(* Servo motion control of the humanoid robot: the safety clamp, the       *)
(* angle-to-pulse mapping, the servo state tables and the move loops of    *)
(* the four movers of the repository                                       *)
(*   "ctl"    RobotController      src/src/robot/controllers/robot_controller.py *)
(*   "legacy" module-level API     src/robot_controller.py                 *)
(*   "cal"    calibration tool     src/calibration.py                      *)
(*   "mock"   MockRobotController  src/src/robot/controllers/mock_robot_controller.py *)
(* the controller's initialize_robot and shutdown, the dicts that two      *)
(* controller instances hold, and the flag, the lock and the position      *)
(* table of the web servers (src/src/robot/web, src/web_server.py).        *)
(*                                                                         *)
(* Angles are fixed-point numbers in tenths of a degree (90 degrees is     *)
(* 900): the finest step any caller produces is the 0.1 degree fine        *)
(* adjustment of the calibration tool.  Pulse counts are plain integers.   *)
(* A Python dict is a function whose DOMAIN is the set of its keys.        *)
(***************************************************************************)
EXTENDS Integers, FiniteSets, Sequences, TLC

VARIABLES
    impl,          \* which mover this run is
    hw,            \* PWM hardware present (self.pwm is not None / HARDWARE_AVAILABLE)
    initialized,   \* RobotController.initialized
    pos,           \* the servo state table: channel -> stored value (tenths)
    pos0,          \* pos as it was when the operation in progress was called
    req,           \* the angles the operation in progress was asked for
    tgt,           \* the safe angles the code computed for them
    groups,        \* the move loops in flight
    pwm,           \* channel -> off count of the last set_pwm on it in this operation
    prev,          \* pwm as the previous operation left it
    nWrites,       \* channel -> number of set_pwm calls on it in this operation
    faulted,       \* channels whose set_pwm raised in this operation
    op,            \* name and outcome of the operation in progress / last returned
    busy,          \* an operation is in progress
    calls,         \* operations started so far
    faults,        \* set_pwm failures injected so far
    robot_initialized,  \* web server flag
    servo_lock,    \* web server mutex: the thread holding it, or NoThread
    current_positions,  \* legacy web server: servo -> position it reports
    heap,          \* the dict objects holding positions: object id -> dict
    inst,          \* controller instance -> id of its positions dict
    pc,            \* web server: what each thread is doing
    max_workers,   \* size of the controller's ThreadPoolExecutor
    work_queue,    \* tasks submitted to the pool and not yet taken by a worker
    running,       \* tasks on the pool's worker threads
    done,          \* tasks whose future has completed (returned or raised)
    pool_shutdown, \* the executor's _shutdown flag
    caller,        \* the thread that calls RobotController.shutdown()
    user,          \* a thread that calls set_servo_batch directly
    state_lock,    \* holder of _state_lock
    pwm_lock,      \* holder of _pwm_lock
    access,        \* the last access to the servo state table
    movement_queue,  \* BaseRobotController.movement_queue
    passed,        \* the calls of set_servos made by execute_queue, in order
    queued,        \* the movements queue_movement was called with, in order
    queue_op,      \* the last queue operation and how it ended
    response_cache,    \* web server: the cached get_all_servos response
    get_servo_info_cache,  \* web server: the lru_cache of get_servo_info
    reported,      \* web server: servo -> position in the last GET /api/servos answer
    bus,           \* MPU6050: the bytes at addr and addr + 1
    value,         \* MPU6050: whether read_raw_data was called, and what it returned
    py_file,       \* calibration tool: DEFAULT_POSITIONS in servo_calibration.py
    json_file,     \* calibration tool: content of servo_calibration.json
    sys_modules,   \* calibration tool: the servo_calibration module once imported
    calibration_data,  \* calibration tool: main's calibration_data
    saved,         \* calibration tool: the mapping last given to save_calibration, and
                   \* whether load_existing_calibration was the last operation since
    session,       \* calibration tool: the calibrate_servo call in progress
    commanded,     \* calibration tool: the angle calibrate_servo last gave set_servo
    walk           \* step_forward / walk_forward in progress

moveVars == <<impl, hw, initialized, pos, pos0, req, tgt, groups, pwm, prev, nWrites,
              faulted, op, busy, calls, faults>>
webVars  == <<robot_initialized, servo_lock, current_positions, pc>>
instVars == <<heap, inst>>
poolVars == <<max_workers, work_queue, running, done, pool_shutdown, caller, user,
              state_lock, pwm_lock, access>>
queueVars == <<movement_queue, passed, queued, queue_op>>
cacheVars == <<response_cache, get_servo_info_cache, reported>>
sensorVars == <<bus, value>>
toolVars == <<py_file, json_file, sys_modules, calibration_data, saved, session,
              commanded>>
walkVars == <<walk>>
extVars  == <<poolVars, queueVars, cacheVars, sensorVars, toolVars, walkVars>>
vars     == <<moveVars, webVars, instVars, extVars>>

(* ------------------------------ bounds -------------------------------- *)
MaxCalls  == 2
MaxFaults == 1

(* ---------------------------- arithmetic ------------------------------ *)
Scale == 10

Min(a, b) == IF a < b THEN a ELSE b
Max(a, b) == IF a > b THEN a ELSE b
Abs(a)    == IF a < 0 THEN -a ELSE a

\* Python int(): truncation toward zero, on a fixed-point angle
Trunc(a) == IF a >= 0 THEN (a \div Scale) * Scale ELSE -(((-a) \div Scale) * Scale)

\* dict.get(k, d) and d[k] = v
Get(d, k, default) == IF k \in DOMAIN d THEN d[k] ELSE default
Put(d, k, v) == [x \in (DOMAIN d) \cup {k} |-> IF x = k THEN v ELSE d[x]]
Empty == [x \in {} |-> 0]

(* ------------------------------ tables -------------------------------- *)
Channels == 0..15
ServoIds == 0..12

\* config.py: the per-servo limits of the packaged controller, in degrees
ServoConfig(id) ==
    CASE id = 0          -> <<45, 135>>
      [] id \in {1, 2}   -> <<30, 150>>
      [] id = 3          -> <<60, 180>>
      [] id = 4          -> <<0, 120>>
      [] id \in 5..10    -> <<60, 120>>
      [] id \in {11, 12} -> <<30, 150>>

\* SERVO_LIMITS.get(servo_index, (0, 180)) of the legacy module and the
\* calibration tool, in degrees
SERVO_LIMITS(ch) ==
    IF ch = 0 THEN <<45, 135>>
    ELSE IF ch \in ServoIds THEN <<30, 150>>
    ELSE <<0, 180>>

\* the limit pair a mover applies to a channel, in tenths: the controller
\* asks config.get_servo_limits (no entry: ValueError), the mock reads the
\* config's SERVO_LIMITS with .get(servo_index, (0, 180))
Limits(i, ch) ==
    LET l == CASE i = "ctl"  -> ServoConfig(ch)
               [] i = "mock" -> (IF ch \in ServoIds THEN ServoConfig(ch) ELSE <<0, 180>>)
               [] OTHER      -> SERVO_LIMITS(ch)
    IN  <<l[1] * Scale, l[2] * Scale>>
HasLimits(i, ch) == i = "ctl" => ch \in ServoIds

DefaultPosition == 90 * Scale
DEFAULT_POSITIONS == [id \in ServoIds |-> DefaultPosition]

(* --------------------------- safety clamp ----------------------------- *)
\* safe_angle = max(min_angle, min(max_angle, angle))
\* (a faulty variant, without the upper limit, that C1 must reject)
ClampNoUpper(i, ch, a) == Max(Limits(i, ch)[1], a)
Clamp(i, ch, a) == Max(Limits(i, ch)[1], Min(Limits(i, ch)[2], a))

\* RobotController._validate_servo_params: int(max(min, min(max, angle)))
\* (a variant without the int(), that C2 must reject)
ValidateNoTrunc(id, a) == Clamp("ctl", id, a)
ValidateServoParams(id, a) == Trunc(Clamp("ctl", id, a))

\* the safe angle each mover derives from a requested angle
SafeAngle(i, ch, a) ==
    IF i = "ctl" THEN ValidateServoParams(ch, a) ELSE Clamp(i, ch, a)

(* ------------------------- angle-to-pulse ----------------------------- *)
MIN_PWM   == 205
PWM_RANGE == 205
min_pulse == 150
max_pulse == 600

\* int(lo + (a / 180.0) * range) for the angle num/den tenths of a degree
PulseQ(lo, range, num, den) ==
    (lo * 180 * Scale * den + num * range) \div (180 * Scale * den)

\* RobotController._angle_to_pwm / legacy set_servo: int(205 + (a/180.0)*205)
\* (a variant with a range of 204 counts, that C13 must reject, and one that
\* rounds to the nearest count, that C14 must reject)
AngleToPwmShort(a) == PulseQ(MIN_PWM, PWM_RANGE - 1, a, 1)
AngleToPwmRound(a) ==
    (2 * MIN_PWM * 180 * Scale + 2 * a * PWM_RANGE + 180 * Scale) \div (2 * 180 * Scale)
AngleToPwm(a) == PulseQ(MIN_PWM, PWM_RANGE, a, 1)

\* angles whose double-precision product falls just under the exact integer,
\* so that int() yields one count less than the exact quotient
CalFloatLow == {1036, 1068, 1096, 1156, 1312, 1316, 1372, 1376, 1432, 1436}

\* calibration.set_servo: int(min_pulse + (a / 180.0) * pulse_range)
CalPulse(a) ==
    PulseQ(min_pulse, max_pulse - min_pulse, a, 1)
        - (IF a \in CalFloatLow THEN 1 ELSE 0)

(* ----------------------------- move loops ----------------------------- *)
\* A move loop in flight: the channels it drives, the angles it runs between,
\* the number n of points it writes, the number i already written, its state.
Group(ids, from, to, n) ==
    [ids |-> ids, from |-> from, to |-> to, n |-> n, i |-> 0, st |-> "queued"]

\* point k of the loop is the angle PointNum/PointDen:
\* range(start, end + step, step) and np.linspace(current, safe, steps) alike
PointNum(g, k) == IF g.n = 1 THEN g.to ELSE g.from * (g.n - 1) + k * (g.to - g.from)
PointDen(g) == IF g.n = 1 THEN 1 ELSE g.n - 1

\* len(range(int(current), int(safe) +/- 1, +/- 1))
\* (a variant that leaves the starting angle out, that C6 must reject)
RangeLenShort(from, to) == Abs(to - from) \div Scale
RangeLen(from, to) == Abs(to - from) \div Scale + 1

Advance(g) == [g EXCEPT !.i = @ + 1,
                        !.st = IF g.i + 1 = g.n THEN "done" ELSE "running"]
Failed(g) == [g EXCEPT !.st = "failed"]
Live(g) == g.st \in {"queued", "running"}

\* pwm.set_pwm(ch, 0, p) for every ch of ids
Written(ids, p) == [c \in (DOMAIN pwm) \cup ids |-> IF c \in ids THEN p ELSE pwm[c]]
Counted(ids) ==
    [c \in (DOMAIN nWrites) \cup ids |->
        IF c \in ids THEN Get(nWrites, c, 0) + 1 ELSE nWrites[c]]

\* every operation starts with a fresh record of what it was asked and wrote;
\* a run is followed until the operation that met a write failure has returned
Begin(asked) ==
    /\ calls < MaxCalls
    /\ faults = 0
    /\ ~busy
    /\ calls' = calls + 1
    /\ req' = asked
    /\ pos0' = pos
    /\ prev' = pwm
    /\ pwm' = Empty
    /\ nWrites' = Empty
    /\ faulted' = {}

(* ------------------- RobotController (src/src) ------------------------ *)
\* the value _move_servo_group stores as the servo's position after writing
\* pulse p for angle a
StoredPosition(p, a) == p * Scale

\* 0 <= angle <= 180, the guard of _angle_to_pwm
ValidAngle(a) == a >= 0 /\ a <= 180 * Scale

\* (a variant that validates and stores channel by channel, so that the known
\* channels of a batch have their targets before the unknown one raises; C22
\* must reject it)
SetServoBatchEager(servo_angles) ==
    /\ impl = "ctl"
    /\ Begin(servo_angles)
    /\ initialized
    /\ \E id \in DOMAIN servo_angles : id \notin DOMAIN pos
    /\ pos' = [c \in DOMAIN pos |->
                  IF c \in DOMAIN servo_angles
                  THEN ValidateServoParams(c, servo_angles[c]) ELSE pos[c]]
    /\ op' = [name |-> "set_servo_batch", result |-> "ServoError"]
    /\ UNCHANGED <<impl, hw, initialized, tgt, groups, busy, faults, webVars, instVars, extVars>>

\* set_servo_batch(servo_angles): validation, grouping by (current, target),
\* one _move_servo_group task per group
SetServoBatch(servo_angles) ==
    /\ impl = "ctl"
    /\ Begin(servo_angles)
    /\ IF ~initialized
       THEN /\ op' = [name |-> "set_servo_batch", result |-> "RobotControllerError"]
            /\ UNCHANGED <<tgt, groups, busy>>
       ELSE IF \E id \in DOMAIN servo_angles : id \notin DOMAIN pos
       THEN /\ op' = [name |-> "set_servo_batch", result |-> "ServoError"]
            /\ UNCHANGED <<tgt, groups, busy>>
       ELSE LET validated == [id \in DOMAIN servo_angles |->
                                 ValidateServoParams(id, servo_angles[id])]
                moving == {id \in DOMAIN servo_angles : pos[id] # validated[id]}
            IN  /\ tgt' = validated
                /\ groups' = { Group({j \in moving : /\ pos[j] = pos[id]
                                                     /\ validated[j] = validated[id]},
                                     pos[id], validated[id],
                                     RangeLen(pos[id], validated[id])) : id \in moving }
                /\ busy' = TRUE
                /\ op' = [name |-> "set_servo_batch", result |-> "running"]
    /\ UNCHANGED <<impl, hw, initialized, pos, faults, webVars, instVars, extVars>>

\* one turn of the loop of _move_servo_group, under _pwm_lock: the write of
\* one pulse to every servo of the group and the update of their state.
\* The pulses are computed before the loop: an angle outside 0..180 raises
\* ValueError before anything is written.
MoveServoGroup(g) ==
    /\ impl = "ctl"
    /\ busy
    /\ g \in groups
    /\ Live(g)
    /\ IF ~(ValidAngle(g.from) /\ ValidAngle(g.to))
       THEN /\ groups' = (groups \ {g}) \cup {Failed(g)}
            /\ UNCHANGED <<pos, pwm, nWrites>>
       ELSE LET a == PointNum(g, g.i) \div PointDen(g)
                p == AngleToPwm(a)
            IN  /\ groups' = (groups \ {g}) \cup {Advance(g)}
                /\ IF hw
                   THEN pwm' = Written(g.ids, p) /\ nWrites' = Counted(g.ids)
                   ELSE UNCHANGED <<pwm, nWrites>>
                /\ pos' = [c \in DOMAIN pos |->
                              IF c \in g.ids THEN StoredPosition(p, a) ELSE pos[c]]
    /\ UNCHANGED <<impl, hw, prev, initialized, pos0, req, tgt, faulted, op, busy,
                   calls, faults, webVars, instVars, extVars>>

\* set_pwm raises for servo ch in a turn of the loop: the servos iterated
\* before it (any of the others: set order) have this turn's pulse, the
\* exception leaves _move_servo_group and ends the group's task
MoveServoGroupFail(g, ch, before) ==
    /\ impl = "ctl"
    /\ busy
    /\ hw
    /\ faults < MaxFaults
    /\ g \in groups
    /\ Live(g)
    /\ ValidAngle(g.from)
    /\ ValidAngle(g.to)
    /\ ch \in g.ids
    /\ before \subseteq g.ids \ {ch}
    /\ LET p == AngleToPwm(PointNum(g, g.i) \div PointDen(g))
       IN  /\ pwm' = Written(before, p)
           /\ nWrites' = Counted(before)
    /\ groups' = (groups \ {g}) \cup {Failed(g)}
    /\ faulted' = faulted \cup {ch}
    /\ faults' = faults + 1
    /\ UNCHANGED <<impl, hw, prev, initialized, pos, pos0, req, tgt, op, busy, calls, webVars, instVars, extVars>>

\* as_completed(futures): set_servo_batch returns when every group's task has
\* ended, whatever it raised ("except: continue")
BatchReturn ==
    /\ impl = "ctl"
    /\ busy
    /\ op.name = "set_servo_batch"
    /\ \A g \in groups : ~Live(g)
    /\ busy' = FALSE
    /\ op' = [op EXCEPT !.result = "ok"]
    /\ UNCHANGED <<impl, hw, prev, initialized, pos, pos0, req, tgt, groups, pwm, nWrites,
                   faulted, calls, faults, webVars, instVars, extVars>>

\* initialize_robot(): returns at once when the flag is set; otherwise the
\* set_servo_batch it calls raises "Robot not initialized" before
\* self.initialized = True is reached, and the error is re-raised
InitializeRobot ==
    /\ impl = "ctl"
    /\ ~busy
    /\ calls < MaxCalls
    /\ faults = 0
    /\ calls' = calls + 1
    /\ op' = [name |-> "initialize_robot",
              result |-> IF initialized THEN "ok" ELSE "RobotControllerError"]
    /\ UNCHANGED <<impl, hw, prev, initialized, pos, pos0, req, tgt, groups, pwm,
                   nWrites, faulted, busy, faults, webVars, instVars, extVars>>

\* shutdown(): with the flag set, a set_servo_batch to the calibrated
\* positions of all servos runs in the pool
Shutdown ==
    /\ impl = "ctl"
    /\ Begin([id \in DOMAIN pos |-> DefaultPosition])
    /\ busy' = TRUE
    /\ IF initialized
       THEN LET moving == {id \in DOMAIN pos : pos[id] # DefaultPosition}
            IN  /\ tgt' = [id \in DOMAIN pos |-> DefaultPosition]
                /\ groups' = { Group({j \in moving : pos[j] = pos[id]},
                                     pos[id], DefaultPosition,
                                     RangeLen(pos[id], DefaultPosition)) : id \in moving }
                /\ op' = [name |-> "shutdown", result |-> "moving"]
       ELSE /\ tgt' = Empty
            /\ groups' = {}
            /\ op' = [name |-> "shutdown", result |-> "releasing"]
    /\ UNCHANGED <<impl, hw, initialized, pos, faults, webVars, instVars, extVars>>

\* self.cleanup() inside shutdown: the pool is shut down with wait=True, so
\* every move loop has ended; the flag is dropped
ShutdownCleanup ==
    /\ impl = "ctl"
    /\ busy
    /\ op = [name |-> "shutdown", result |-> "moving"]
    /\ \A g \in groups : ~Live(g)
    /\ initialized' = FALSE
    /\ op' = [op EXCEPT !.result = "releasing"]
    /\ UNCHANGED <<impl, hw, prev, pos, pos0, req, tgt, groups, pwm, nWrites, faulted,
                   busy, calls, faults, webVars, instVars, extVars>>

\* "Disable all PWM channels": set_pwm(channel, 0, 0) for channel 0..15, if
\* there is a device
ShutdownRelease ==
    /\ impl = "ctl"
    /\ busy
    /\ op = [name |-> "shutdown", result |-> "releasing"]
    /\ IF hw
       THEN pwm' = Written(Channels, 0) /\ nWrites' = Counted(Channels)
       ELSE UNCHANGED <<pwm, nWrites>>
    /\ busy' = FALSE
    /\ op' = [op EXCEPT !.result = "ok"]
    /\ UNCHANGED <<impl, hw, prev, initialized, pos, pos0, req, tgt, groups, faulted,
                   calls, faults, webVars, instVars, extVars>>

\* set_pwm raises for channel ch of that loop: the channels below it are
\* released, "except Exception" prints a warning and shutdown returns
ShutdownReleaseFail(ch) ==
    /\ impl = "ctl"
    /\ busy
    /\ hw
    /\ faults < MaxFaults
    /\ op = [name |-> "shutdown", result |-> "releasing"]
    /\ pwm' = Written(0..(ch - 1), 0)
    /\ nWrites' = Counted(0..(ch - 1))
    /\ faulted' = faulted \cup {ch}
    /\ faults' = faults + 1
    /\ busy' = FALSE
    /\ op' = [op EXCEPT !.result = "ok"]
    /\ UNCHANGED <<impl, hw, prev, initialized, pos, pos0, req, tgt, groups, calls,
                   webVars, instVars, extVars>>

\* cleanup(): clears the caches, shuts the pool down, drops the flag
Cleanup ==
    /\ impl = "ctl"
    /\ ~busy
    /\ calls < MaxCalls
    /\ initialized
    /\ initialized' = FALSE
    /\ calls' = calls + 1
    /\ op' = [name |-> "cleanup", result |-> "ok"]
    /\ UNCHANGED <<impl, hw, prev, pos, pos0, req, tgt, groups, pwm, nWrites, faulted,
                   busy, faults, webVars, instVars, extVars>>

(* ---------------- legacy module (src/robot_controller.py) ------------- *)
\* set_servo(servo_index, angle): clamp, then a write per whole degree from
\* DEFAULT_POSITIONS.get(servo_index, 90) to the safe angle
LegacySetServo(ch, angle) ==
    /\ impl = "legacy"
    /\ Begin(ch :> angle)
    /\ LET safe_angle == Clamp("legacy", ch, angle)
           current_angle == Get(pos, ch, DefaultPosition)
       IN  /\ tgt' = (ch :> safe_angle)
           /\ groups' = { Group({ch}, Trunc(current_angle), Trunc(safe_angle),
                                RangeLen(Trunc(current_angle), Trunc(safe_angle))) }
    /\ busy' = TRUE
    /\ op' = [name |-> "set_servo", result |-> "running"]
    /\ UNCHANGED <<impl, hw, initialized, pos, faults, webVars, instVars, extVars>>

\* one turn of either for loop: pwm.set_pwm(servo_index, 0, pwm_value)
LegacyLoop(g) ==
    /\ impl = "legacy"
    /\ busy
    /\ g \in groups
    /\ Live(g)
    /\ pwm' = Written(g.ids, AngleToPwm(PointNum(g, g.i) \div PointDen(g)))
    /\ nWrites' = Counted(g.ids)
    /\ groups' = {Advance(g)}
    /\ UNCHANGED <<impl, hw, prev, initialized, pos, pos0, req, tgt, faulted, op, busy,
                   calls, faults, webVars, instVars, extVars>>

\* set_pwm raises: nothing catches it, set_servo ends with the exception
LegacyFail(g) ==
    /\ impl = "legacy"
    /\ busy
    /\ faults < MaxFaults
    /\ g \in groups
    /\ Live(g)
    /\ groups' = {Failed(g)}
    /\ faulted' = faulted \cup g.ids
    /\ faults' = faults + 1
    /\ UNCHANGED <<impl, hw, prev, initialized, pos, pos0, req, tgt, pwm, nWrites, op,
                   busy, calls, webVars, instVars, extVars>>

\* set_servo returns, or the exception reaches the caller
LegacyReturn ==
    /\ impl = "legacy"
    /\ busy
    /\ \A g \in groups : ~Live(g)
    /\ busy' = FALSE
    /\ op' = [op EXCEPT !.result = IF faulted = {} THEN "ok" ELSE "raised"]
    /\ UNCHANGED <<impl, hw, prev, initialized, pos, pos0, req, tgt, groups, pwm, nWrites,
                   faulted, calls, faults, webVars, instVars, extVars>>

(* --------------- MockRobotController (src/src) ------------------------ *)
\* set_servo(servo_index, angle): the simulated move, a state update per
\* whole degree and no PWM write
MockSetServo(ch, angle) ==
    /\ impl = "mock"
    /\ Begin(ch :> angle)
    /\ LET safe_angle == Clamp("mock", ch, angle)
           current_angle == Get(pos, ch, DefaultPosition)
       IN  /\ tgt' = (ch :> safe_angle)
           /\ groups' = { Group({ch}, Trunc(current_angle), Trunc(safe_angle),
                                RangeLen(Trunc(current_angle), Trunc(safe_angle))) }
    /\ busy' = TRUE
    /\ op' = [name |-> "set_servo", result |-> "running"]
    /\ UNCHANGED <<impl, hw, initialized, pos, faults, webVars, instVars, extVars>>

\* self.current_positions[servo_index] = a
MockLoop(g) ==
    /\ impl = "mock"
    /\ busy
    /\ g \in groups
    /\ Live(g)
    /\ \E ch \in g.ids : pos' = Put(pos, ch, PointNum(g, g.i) \div PointDen(g))
    /\ groups' = {Advance(g)}
    /\ UNCHANGED <<impl, hw, prev, initialized, pos0, req, tgt, pwm, nWrites, faulted, op,
                   busy, calls, faults, webVars, instVars, extVars>>

MockReturn ==
    /\ impl = "mock"
    /\ busy
    /\ \A g \in groups : ~Live(g)
    /\ busy' = FALSE
    /\ op' = [op EXCEPT !.result = "ok"]
    /\ UNCHANGED <<impl, hw, prev, initialized, pos, pos0, req, tgt, groups, pwm, nWrites,
                   faulted, calls, faults, webVars, instVars, extVars>>

(* ----------------- calibration tool (src/calibration.py) -------------- *)
\* the no-op threshold: abs(current_angle - safe_angle) < 0.5
Tolerance == 5
AtTarget(current_angle, safe_angle) == Abs(current_angle - safe_angle) < Tolerance

\* steps = max(int(abs(current_angle - safe_angle) / 2), 5)
Steps(current_angle, safe_angle) ==
    Max(Abs(current_angle - safe_angle) \div (2 * Scale), 5)

\* set_servo(servo_index, angle, speed) with an angle
CalSetServo(ch, angle, speed) ==
    /\ impl = "cal"
    /\ Begin(ch :> angle)
    /\ IF ~hw
       THEN \* simulation mode: the cache takes the angle as asked
            /\ pos' = Put(pos, ch, angle)
            /\ op' = [name |-> "set_servo", result |-> "ok"]
            /\ tgt' = Empty
            /\ groups' = {}
            /\ UNCHANGED busy
       ELSE LET safe_angle == Clamp("cal", ch, angle)
                current_angle == Get(pos, ch, DefaultPosition)
            IN  /\ tgt' = (ch :> safe_angle)
                /\ IF AtTarget(current_angle, safe_angle)
                   THEN /\ op' = [name |-> "set_servo", result |-> "ok"]
                        /\ groups' = {}
                        /\ UNCHANGED busy
                   ELSE /\ op' = [name |-> "set_servo", result |-> "running"]
                        /\ busy' = TRUE
                        /\ groups' = { Group({ch}, current_angle, safe_angle,
                                         IF speed > 0 /\ Abs(current_angle - safe_angle) > 5 * Scale
                                         THEN Steps(current_angle, safe_angle)
                                         ELSE 1) }
                /\ UNCHANGED pos
    /\ UNCHANGED <<impl, hw, initialized, faults, webVars, instVars, extVars>>

\* one pwm.set_pwm(servo_index, 0, pulse) of the trajectory (or the single
\* immediate one); after the last, current_positions[servo_index] = safe_angle
CalLoop(g) ==
    /\ impl = "cal"
    /\ busy
    /\ g \in groups
    /\ Live(g)
    /\ LET pulse == IF g.i = g.n - 1 THEN CalPulse(g.to)
                    ELSE PulseQ(min_pulse, max_pulse - min_pulse,
                                PointNum(g, g.i), PointDen(g))
       IN  pwm' = Written(g.ids, pulse)
    /\ nWrites' = Counted(g.ids)
    /\ groups' = {Advance(g)}
    /\ IF g.i = g.n - 1
       THEN /\ \E ch \in g.ids : pos' = Put(pos, ch, g.to)
            /\ busy' = FALSE
            /\ op' = [op EXCEPT !.result = "ok"]
       ELSE UNCHANGED <<pos, busy, op>>
    /\ UNCHANGED <<impl, hw, prev, initialized, pos0, req, tgt, faulted, calls, faults, webVars, instVars, extVars>>

\* set_pwm raises: "except Exception" logs it and set_servo returns False
CalFail(g) ==
    /\ impl = "cal"
    /\ busy
    /\ faults < MaxFaults
    /\ g \in groups
    /\ Live(g)
    /\ groups' = {Failed(g)}
    /\ faulted' = faulted \cup g.ids
    /\ faults' = faults + 1
    /\ busy' = FALSE
    /\ op' = [op EXCEPT !.result = "false"]
    /\ UNCHANGED <<impl, hw, prev, initialized, pos, pos0, req, tgt, pwm, nWrites, calls, webVars, instVars, extVars>>

\* set_servo(servo_index, None): release the servo.  In simulation mode the
\* function returns before it looks at the cache.
CalRelease(ch) ==
    /\ impl = "cal"
    /\ calls < MaxCalls
    /\ faults = 0
    /\ ~busy
    /\ calls' = calls + 1
    /\ req' = [c \in {ch} |-> "None"]
    /\ pos0' = pos
    /\ prev' = pwm
    /\ tgt' = Empty
    /\ groups' = {}
    /\ faulted' = {}
    /\ op' = [name |-> "release", result |-> "ok"]
    /\ IF ~hw
       THEN /\ pwm' = Empty
            /\ nWrites' = Empty
            /\ UNCHANGED pos
       ELSE /\ pwm' = (ch :> 0)
            /\ nWrites' = (ch :> 1)
            /\ pos' = [c \in (DOMAIN pos) \ {ch} |-> pos[c]]
    /\ UNCHANGED <<impl, hw, initialized, busy, faults, webVars, instVars, extVars>>

(* ------------------------ the movers' runs ---------------------------- *)
\* requested angles, in tenths: below the limits of the channels moved, within
\* half a degree of the neutral 90 on either side, a short travel, above
\* every limit
Angles == {200, 896, 903, 950, 2000}
Speeds == {0, 1}
BatchDomains == {{0}, {5}, {13}, {0, 5}, {5, 6}, {5, 13}}
\* the long downward travel is asked of one channel at a time
BatchAngles(d) == IF Cardinality(d) = 1 THEN Angles ELSE Angles \ {200}
MoveChans == {0, 3, 13}

\* the one dict every module shares, DEFAULT_POSITIONS, is object 0; no
\* controller instance is constructed yet
DefaultsRef == 0
Instances == {"a", "b"}
NoRef == -1
InitHeap ==
    /\ heap = (DefaultsRef :> DEFAULT_POSITIONS)
    /\ inst = [i \in Instances |-> NoRef]

NoThread == "none"
Threads == {"t1", "t2", "main"}

\* no task, no lock holder
NoTask == [kind |-> "none"]
NoAccess == [by |-> NoTask, kind |-> "none", locked |-> TRUE]

\* the controller's pool and locks as __init__ leaves them, nobody calling
PoolIdle ==
    /\ max_workers = 1
    /\ work_queue = << >>
    /\ running = {}
    /\ done = {}
    /\ pool_shutdown = FALSE
    /\ caller = "absent"
    /\ user = [at |-> "absent", subs |-> {}]
    /\ state_lock = NoTask
    /\ pwm_lock = NoTask
    /\ access = NoAccess

\* BaseRobotController.__init__: an empty movement queue
QueueIdle ==
    /\ movement_queue = << >>
    /\ passed = << >>
    /\ queued = << >>
    /\ queue_op = [name |-> "none", result |-> "none"]

\* the web server's caches at import
NoResponse == [cached |-> FALSE, data |-> Empty]
CacheIdle ==
    /\ response_cache = NoResponse
    /\ get_servo_info_cache = Empty
    /\ reported = Empty

\* the sensor unread
SensorIdle ==
    /\ bus = [high |-> 0, low |-> 0]
    /\ value = [read |-> FALSE, data |-> 0]

\* the calibration tool not started: no calibration files, no session
NoFile == [exists |-> FALSE, data |-> Empty]
NoSession == [servo |-> -1, current_angle |-> 0, ret |-> "none", entry |-> Empty,
              n |-> 0]
NothingSaved == [any |-> FALSE, d |-> Empty, loaded |-> FALSE]
ToolIdle ==
    /\ py_file = NoFile
    /\ json_file = NoFile
    /\ sys_modules = NoFile
    /\ calibration_data = Empty
    /\ saved = NothingSaved
    /\ session = NoSession
    /\ commanded = DefaultPosition

\* nobody walking
NoWalk == [steps |-> -1, left |-> 0, at |-> 0, ret |-> FALSE,
           entry |-> Empty, start |-> Empty]
WalkIdle == walk = NoWalk

ExtIdle == PoolIdle /\ QueueIdle /\ CacheIdle /\ SensorIdle /\ ToolIdle /\ WalkIdle

InitWebIdle ==
    /\ robot_initialized = FALSE
    /\ servo_lock = NoThread
    /\ current_positions = DEFAULT_POSITIONS
    /\ pc = [t \in Threads |-> [at |-> "idle", ep |-> "none", left |-> 0]]

\* One mover per run, as constructed: the RobotController with its states
\* at the default calibrated position, newly constructed (flag False) or
\* with its flag set (set_servo_batch refuses to run without it), PWM device
\* present or None;
\* the legacy module (always with its device), the calibration tool with an
\* empty cache (device present or simulation mode), the mock controller.
InitMovers ==
    /\ impl \in {"ctl", "legacy", "cal", "mock"}
    /\ hw \in BOOLEAN
    /\ impl = "legacy" => hw
    /\ impl = "mock" => ~hw
    /\ initialized \in BOOLEAN
    /\ impl # "ctl" => ~initialized
    /\ pos = IF impl = "cal" THEN Empty ELSE DEFAULT_POSITIONS
    /\ pos0 = pos
    /\ req = Empty
    /\ tgt = Empty
    /\ groups = {}
    /\ pwm = Empty
    /\ prev = Empty
    /\ nWrites = Empty
    /\ faulted = {}
    /\ InitHeap
    /\ op = [name |-> "none", result |-> "none"]
    /\ busy = FALSE
    /\ calls = 0
    /\ faults = 0
    /\ InitWebIdle

InitMove == InitMovers /\ ExtIdle

NextMove ==
    \/ \E d \in BatchDomains : \E servo_angles \in [d -> BatchAngles(d)] :
          SetServoBatch(servo_angles)
    \/ \E g \in groups : MoveServoGroup(g)
    \/ \E g \in groups : \E ch \in g.ids : \E before \in SUBSET (g.ids \ {ch}) :
          MoveServoGroupFail(g, ch, before)
    \/ BatchReturn
    \/ Cleanup
    \/ InitializeRobot
    \/ Shutdown
    \/ ShutdownCleanup
    \/ ShutdownRelease
    \/ \E ch \in Channels : ShutdownReleaseFail(ch)
    \/ \E ch \in MoveChans : \E angle \in Angles : LegacySetServo(ch, angle)
    \/ \E g \in groups : LegacyLoop(g)
    \/ \E g \in groups : LegacyFail(g)
    \/ LegacyReturn
    \/ \E ch \in MoveChans : \E angle \in Angles : MockSetServo(ch, angle)
    \/ \E g \in groups : MockLoop(g)
    \/ MockReturn
    \/ \E ch \in MoveChans : \E angle \in Angles : \E speed \in Speeds :
          CalSetServo(ch, angle, speed)
    \/ \E g \in groups : CalLoop(g)
    \/ \E g \in groups : CalFail(g)
    \/ \E ch \in MoveChans : CalRelease(ch)

SpecMove == InitMove /\ [][NextMove]_vars

(* ------------------------ the clamp on its own ------------------------ *)
ClampAngles == {-100, 0, 299, 300, 455, 600, 896, 900, 903, 1205, 1350, 1351,
                1500, 1800, 2000}

\* the safe angle a mover computes for one requested angle, as the first
\* lines of set_servo and _validate_servo_params do
ClampApply(ch, angle) ==
    /\ ~busy
    /\ req' = (ch :> angle)
    /\ IF HasLimits(impl, ch)
       THEN /\ tgt' = (ch :> SafeAngle(impl, ch, angle))
            /\ op' = [name |-> "clamp", result |-> "ok"]
       ELSE /\ tgt' = Empty
            /\ op' = [name |-> "clamp", result |-> "ServoError"]
    /\ UNCHANGED <<impl, hw, prev, initialized, pos, pos0, groups, pwm, nWrites, faulted,
                   busy, calls, faults, webVars, instVars, extVars>>

NextClamp == \E ch \in Channels : \E angle \in ClampAngles : ClampApply(ch, angle)

SpecClamp == InitMove /\ [][NextClamp]_vars

(* --------------------- the pulse conversion on its own ---------------- *)
\* whole degrees from 0 to one past the range
PulseAngles == {d * Scale : d \in 0..181}

\* the pulse a mover computes for one angle (req holds the angle, pwm the
\* pulse): _angle_to_pwm raises ValueError outside 0..180, the others
\* evaluate the formula as it stands
PulseApply(angle) ==
    /\ ~busy
    /\ req' = (0 :> angle)
    /\ IF impl = "ctl" /\ ~ValidAngle(angle)
       THEN /\ pwm' = Empty
            /\ op' = [name |-> "angle_to_pwm", result |-> "ValueError"]
       ELSE /\ pwm' = (0 :> IF impl = "cal" THEN CalPulse(angle) ELSE AngleToPwm(angle))
            /\ op' = [name |-> "angle_to_pwm", result |-> "ok"]
    /\ UNCHANGED <<impl, hw, prev, initialized, pos, pos0, tgt, groups, nWrites, faulted,
                   busy, calls, faults, webVars, instVars, extVars>>

NextPulse == \E angle \in PulseAngles : PulseApply(angle)

SpecPulse == InitMove /\ [][NextPulse]_vars

(* ------------------------ controller instances ------------------------ *)
\* self.current_positions = DEFAULT_POSITIONS.copy(), and the dict
\* comprehension building self._servo_states: the instance holds a new dict
\* (a variant that keeps the module's dict, that C16 must reject)
DictAlias(ref, fresh) == ref
DictCopy(ref, fresh) == fresh

\* __init__ of instance i
Construct(i) ==
    /\ impl \in {"ctl", "mock"}
    /\ inst[i] = NoRef
    /\ LET r == DictCopy(DefaultsRef, Cardinality(DOMAIN heap))
       IN  /\ heap' = [o \in (DOMAIN heap) \cup {r} |->
                          IF o \in DOMAIN heap THEN heap[o] ELSE heap[DefaultsRef]]
           /\ inst' = [inst EXCEPT ![i] = r]
    /\ UNCHANGED <<moveVars, webVars, extVars>>

\* the value a completed, undisturbed set_servo(ch, angle) of instance i
\* leaves in its dict d: the mock ends its loop on int(safe_angle); the
\* RobotController refuses without the flag or for an unknown id, moves
\* nothing from a stored value that equals the target or is no angle, and
\* otherwise stores the last pulse
AfterSetServo(d, ch, angle) ==
    IF impl = "mock"
    THEN Put(d, ch, Trunc(Clamp("mock", ch, angle)))
    ELSE IF ~initialized \/ ch \notin DOMAIN d THEN d
    ELSE LET validated == ValidateServoParams(ch, angle)
         IN  IF d[ch] = validated \/ ~ValidAngle(d[ch]) THEN d
             ELSE Put(d, ch, StoredPosition(AngleToPwm(validated), validated))

InstSetServo(i, ch, angle) ==
    /\ impl \in {"ctl", "mock"}
    /\ inst[i] # NoRef
    /\ heap' = [heap EXCEPT ![inst[i]] = AfterSetServo(@, ch, angle)]
    /\ UNCHANGED <<inst, moveVars, webVars, extVars>>

InstChans == {0, 13}

NextInstances ==
    \/ \E i \in Instances : Construct(i)
    \/ \E i \in Instances : \E ch \in InstChans : \E angle \in Angles :
          InstSetServo(i, ch, angle)

SpecInstances == InitMove /\ [][NextInstances]_vars

(* --------------------------- web server ------------------------------- *)
\* the endpoints that call into the controller, and those behind
\* require_initialized
Endpoints == {"init", "servo", "stand", "walk", "dance", "shutdown", "calibrate"}
Guarded == {"servo", "stand", "walk", "dance", "calibrate"}
Handlers == Threads \ {"main"}
WalkSteps == {1, 2}

At(t, where) == pc[t].at = where

\* (a variant without require_initialized, that C20 must reject)
RequestUnguarded(t, ep, steps) ==
    /\ t \in Handlers
    /\ At(t, "idle")
    /\ ~At("main", "exited")
    /\ pc' = [pc EXCEPT ![t] = [at |-> "wait", ep |-> ep,
                                left |-> IF ep = "walk" THEN steps ELSE 1]]
    /\ UNCHANGED <<robot_initialized, servo_lock, current_positions, moveVars, instVars, extVars>>

\* a request arrives: require_initialized answers 400 at once, otherwise the
\* handler (or the pool task it submits) goes for the lock
Request(t, ep, steps) ==
    /\ t \in Handlers
    /\ At(t, "idle")
    /\ ~At("main", "exited")
    /\ IF ep \in Guarded /\ ~robot_initialized
       THEN pc' = [pc EXCEPT ![t] = [at |-> "idle", ep |-> "400", left |-> 0]]
       ELSE pc' = [pc EXCEPT ![t] = [at |-> "wait", ep |-> ep,
                                     left |-> IF ep = "walk" THEN steps ELSE 1]]
    /\ UNCHANGED <<robot_initialized, servo_lock, current_positions, moveVars, instVars, extVars>>

\* the legacy server's POST /api/servo (src/web_server.py): int(angle) goes
\* into current_positions, the table GET /api/servo/<n> reports from, before
\* set_servo is called under the lock
WebServos == {0}
WebAngles == {100 * Scale, 200 * Scale}
LegacyMoveServo(t, servo, angle) ==
    /\ t \in Handlers
    /\ At(t, "idle")
    /\ ~At("main", "exited")
    /\ IF ~robot_initialized
       THEN /\ pc' = [pc EXCEPT ![t] = [at |-> "idle", ep |-> "400", left |-> 0]]
            /\ UNCHANGED current_positions
       ELSE /\ current_positions' = Put(current_positions, servo, angle)
            /\ pc' = [pc EXCEPT ![t] = [at |-> "wait", ep |-> "servo", left |-> 1]]
    /\ UNCHANGED <<robot_initialized, servo_lock, moveVars, instVars, extVars>>

\* safe_robot_action: with servo_lock
SafeRobotActionEnter(t) ==
    /\ At(t, "wait")
    /\ servo_lock = NoThread
    /\ servo_lock' = t
    /\ pc' = [pc EXCEPT ![t].at = "acting"]
    /\ UNCHANGED <<robot_initialized, current_positions, moveVars, instVars, extVars>>

\* the controller call returns (ok) or raises, the lock is released, the
\* handler sets the flag; a walk sleeps and goes for the lock again; a call
\* that raised is answered 500 (a walk's thread just ends)
SafeRobotActionExit(t, ok) ==
    /\ At(t, "acting")
    /\ servo_lock = t
    /\ servo_lock' = NoThread
    /\ robot_initialized' =
          CASE pc[t].ep = "init" -> ok
            [] pc[t].ep = "shutdown" /\ ok -> FALSE
            [] OTHER -> robot_initialized
    /\ pc' = [pc EXCEPT ![t] =
                 IF pc[t].ep = "walk" /\ ok /\ pc[t].left > 1
                 THEN [at |-> "wait", ep |-> "walk", left |-> pc[t].left - 1]
                 ELSE [at |-> "idle", ep |-> IF ok THEN pc[t].ep ELSE "500",
                       left |-> 0]]
    /\ UNCHANGED <<current_positions, moveVars, instVars, extVars>>

\* cleanup(), on KeyboardInterrupt and at exit: robot.shutdown() if the flag is set
CleanupEnter ==
    /\ At("main", "idle")
    /\ pc' = [pc EXCEPT !["main"] =
                 [at |-> IF robot_initialized THEN "acting" ELSE "exited",
                  ep |-> "cleanup", left |-> 0]]
    /\ UNCHANGED <<robot_initialized, servo_lock, current_positions, moveVars, instVars, extVars>>

CleanupExit ==
    /\ At("main", "acting")
    /\ pc' = [pc EXCEPT !["main"].at = "exited"]
    /\ UNCHANGED <<robot_initialized, servo_lock, current_positions, moveVars, instVars, extVars>>

InitWeb == InitMove /\ impl = "ctl" /\ hw = TRUE /\ initialized = FALSE

NextWeb ==
    \/ \E t \in Handlers : \E ep \in Endpoints : \E steps \in WalkSteps :
          Request(t, ep, steps)
    \/ \E t \in Handlers : \E servo \in WebServos : \E angle \in WebAngles :
          LegacyMoveServo(t, servo, angle)
    \/ \E t \in Handlers : SafeRobotActionEnter(t)
    \/ \E t \in Handlers : \E ok \in BOOLEAN : SafeRobotActionExit(t, ok)
    \/ CleanupEnter
    \/ CleanupExit

SpecWeb == InitWeb /\ [][NextWeb]_vars

(* ------------- RobotController: thread pool and locks ----------------- *)
\* ThreadPoolExecutor(max_workers=min(cpu_count, 8)): the pool sizes followed
MaxWorkers == 2

\* what is outside the pool, the locks and the state the pooled tasks touch
poolFrame == <<impl, hw, pos0, req, tgt, groups, prev, nWrites, faulted, op, busy,
               calls, faults, webVars, instVars, queueVars, cacheVars, sensorVars,
               toolVars, walkVars>>

\* the tasks submitted to the pool
ConfigTask(servo_id) == [kind |-> "config", servo |-> servo_id]
BatchTask == [kind |-> "batch"]
GroupTask(owner, ids, from, to) ==
    [kind |-> "group", owner |-> owner, ids |-> ids, from |-> from, to |-> to]
UserThread == [kind |-> "user"]

\* a task on a worker thread: where it is, the loop turn it is at, the
\* futures it waits for
OnWorker(task) == [task |-> task, ph |-> "start", i |-> 0, subs |-> {}]

\* the groups dict of set_servo_batch: one entry per (current, target) pair
\* among the servos that are not at their target, in the order of the first
\* servo of each
BatchGroups(owner, validated) ==
    LET moving == {id \in DOMAIN validated : pos[id] # validated[id]}
    IN  { GroupTask(owner, {j \in moving : /\ pos[j] = pos[id]
                                           /\ validated[j] = validated[id]},
                    pos[id], validated[id]) : id \in moving }
MinId(ids) == CHOOSE m \in ids : \A k \in ids : m <= k
RECURSIVE InOrder(_)
InOrder(S) ==
    IF S = {} THEN << >>
    ELSE LET first == CHOOSE t \in S : \A u \in S : MinId(t.ids) <= MinId(u.ids)
         IN  <<first>> \o InOrder(S \ {first})

\* the read of _servo_states[servo_id].position in the grouping loop of
\* set_servo_batch: no lock is taken around it, so the record of the access
\* says whether the reader happens to hold _state_lock
ReadPositions(by) == [by |-> by, kind |-> "read", locked |-> state_lock = by]

\* a direct call of set_servo_batch(servo_angles) by a thread of the
\* application: flag, validation, grouping, one submit per group (submit
\* raises RuntimeError once the pool is shut down), then as_completed
UserBatch(servo_angles) ==
    /\ user.at = "idle"
    /\ IF ~initialized
       THEN /\ user' = [at |-> "raised", subs |-> {}]
            /\ UNCHANGED <<work_queue, access>>
       ELSE LET validated == [id \in DOMAIN servo_angles |->
                                 ValidateServoParams(id, servo_angles[id])]
                gs == BatchGroups(UserThread, validated)
            IN  /\ access' = ReadPositions(UserThread)
                /\ IF gs # {} /\ pool_shutdown
                   THEN /\ user' = [at |-> "raised", subs |-> {}]
                        /\ UNCHANGED work_queue
                   ELSE /\ user' = [at |-> "waiting", subs |-> gs]
                        /\ work_queue' = work_queue \o InOrder(gs)
    /\ UNCHANGED <<initialized, pos, pwm, max_workers, running, done, pool_shutdown,
                   caller, state_lock, pwm_lock, poolFrame>>

\* as_completed(futures) has yielded every future: set_servo_batch returns
UserReturn ==
    /\ user.at = "waiting"
    /\ user.subs \subseteq done
    /\ user' = [user EXCEPT !.at = "returned"]
    /\ UNCHANGED <<initialized, pos, pwm, max_workers, work_queue, running, done,
                   pool_shutdown, caller, state_lock, pwm_lock, access, poolFrame>>

\* shutdown(), first part: with the flag set, one get_calibrated_position
\* task per servo is submitted (RuntimeError from submit is caught by the
\* outer except, which prints a warning and returns)
PoolShutdownCall ==
    /\ caller = "start"
    /\ IF ~initialized
       THEN caller' = "cleanup" /\ UNCHANGED work_queue
       ELSE IF pool_shutdown
       THEN caller' = "returned" /\ UNCHANGED work_queue
       ELSE /\ caller' = "collect"
            /\ work_queue' = work_queue \o [k \in 1..Cardinality(ServoIds) |->
                                               ConfigTask(k - 1)]
    /\ UNCHANGED <<initialized, pos, pwm, max_workers, running, done, pool_shutdown,
                   user, state_lock, pwm_lock, access, poolFrame>>

\* every future.result() of those has returned: the set_servo_batch to the
\* default positions is submitted to the pool as one task
PoolShutdownSubmit ==
    /\ caller = "collect"
    /\ \A id \in ServoIds : ConfigTask(id) \in done
    /\ caller' = "wait"
    /\ work_queue' = Append(work_queue, BatchTask)
    /\ UNCHANGED <<initialized, pos, pwm, max_workers, running, done, pool_shutdown,
                   user, state_lock, pwm_lock, access, poolFrame>>

\* future.result(timeout=2.0): the task has ended, or two seconds have
\* passed ("except: pass"); either way cleanup() is next
PoolShutdownWait ==
    /\ caller = "wait"
    /\ caller' = "cleanup"
    /\ UNCHANGED <<initialized, pos, pwm, max_workers, work_queue, running, done,
                   pool_shutdown, user, state_lock, pwm_lock, access, poolFrame>>

\* cleanup(): with the flag set, _thread_pool.shutdown(wait=True) is called
PoolCleanup ==
    /\ caller = "cleanup"
    /\ IF initialized
       THEN caller' = "join" /\ pool_shutdown' = TRUE
       ELSE caller' = "release" /\ UNCHANGED pool_shutdown
    /\ UNCHANGED <<initialized, pos, pwm, max_workers, work_queue, running, done,
                   user, state_lock, pwm_lock, access, poolFrame>>

\* shutdown(wait=True) returns when every worker thread has exited, that is
\* when no task is queued or running; cleanup() then drops the flag
PoolJoined ==
    /\ caller = "join"
    /\ work_queue = << >>
    /\ running = {}
    /\ initialized' = FALSE
    /\ caller' = "release"
    /\ UNCHANGED <<pos, pwm, max_workers, work_queue, running, done, pool_shutdown,
                   user, state_lock, pwm_lock, access, poolFrame>>

\* "Disable all PWM channels", with self._pwm_lock; shutdown() returns
PoolRelease ==
    /\ caller = "release"
    /\ pwm_lock = NoTask
    /\ pwm' = IF hw THEN Written(Channels, 0) ELSE pwm
    /\ caller' = "returned"
    /\ UNCHANGED <<initialized, pos, max_workers, work_queue, running, done,
                   pool_shutdown, user, state_lock, pwm_lock, access, poolFrame>>

\* an idle worker thread takes the oldest queued task
WorkerTake ==
    /\ work_queue # << >>
    /\ Cardinality(running) < max_workers
    /\ running' = running \cup {OnWorker(Head(work_queue))}
    /\ work_queue' = Tail(work_queue)
    /\ UNCHANGED <<initialized, pos, pwm, max_workers, done, pool_shutdown, caller,
                   user, state_lock, pwm_lock, access, poolFrame>>

\* config.get_calibrated_position(servo_id) returns
ConfigRun(w) ==
    /\ w \in running
    /\ w.task.kind = "config"
    /\ running' = running \ {w}
    /\ done' = done \cup {w.task}
    /\ UNCHANGED <<initialized, pos, pwm, max_workers, work_queue, pool_shutdown,
                   caller, user, state_lock, pwm_lock, access, poolFrame>>

\* set_servo_batch(default_positions) on a worker thread, up to as_completed:
\* the group tasks go to the queue of the pool it runs in
BatchRun(w) ==
    /\ w \in running
    /\ w.task.kind = "batch"
    /\ w.ph = "start"
    /\ IF ~initialized
       THEN /\ running' = running \ {w}
            /\ done' = done \cup {w.task}
            /\ UNCHANGED <<work_queue, access>>
       ELSE LET validated == [id \in ServoIds |->
                                 ValidateServoParams(id, DefaultPosition)]
                gs == BatchGroups(BatchTask, validated)
            IN  /\ access' = ReadPositions(w.task)
                /\ IF gs # {} /\ pool_shutdown
                   THEN /\ running' = running \ {w}
                        /\ done' = done \cup {w.task}
                        /\ UNCHANGED work_queue
                   ELSE /\ running' = (running \ {w}) \cup
                                         {[w EXCEPT !.ph = "waiting", !.subs = gs]}
                        /\ work_queue' = work_queue \o InOrder(gs)
                        /\ UNCHANGED done
    /\ UNCHANGED <<initialized, pos, pwm, max_workers, pool_shutdown, caller, user,
                   state_lock, pwm_lock, poolFrame>>

\* as_completed(futures) has yielded every group's future: the task ends
BatchDone(w) ==
    /\ w \in running
    /\ w.task.kind = "batch"
    /\ w.ph = "waiting"
    /\ w.subs \subseteq done
    /\ running' = running \ {w}
    /\ done' = done \cup {w.task}
    /\ UNCHANGED <<initialized, pos, pwm, max_workers, work_queue, pool_shutdown,
                   caller, user, state_lock, pwm_lock, access, poolFrame>>

\* _move_servo_group on a worker thread: the pulses are computed first (an
\* angle outside 0..180 raises ValueError and ends the task)
GroupRun(w) ==
    /\ w \in running
    /\ w.task.kind = "group"
    /\ w.ph = "start"
    /\ IF ValidAngle(w.task.from) /\ ValidAngle(w.task.to)
       THEN running' = (running \ {w}) \cup {[w EXCEPT !.ph = "turn"]}
            /\ UNCHANGED done
       ELSE running' = running \ {w}
            /\ done' = done \cup {w.task}
    /\ UNCHANGED <<initialized, pos, pwm, max_workers, work_queue, pool_shutdown,
                   caller, user, state_lock, pwm_lock, access, poolFrame>>

\* a turn of its loop: with self._pwm_lock, and inside it with self._state_lock
GroupAcquire(w) ==
    /\ w \in running
    /\ w.task.kind = "group"
    /\ w.ph = "turn"
    /\ pwm_lock = NoTask
    /\ state_lock = NoTask
    /\ pwm_lock' = w.task
    /\ state_lock' = w.task
    /\ running' = (running \ {w}) \cup {[w EXCEPT !.ph = "locked"]}
    /\ UNCHANGED <<initialized, pos, pwm, max_workers, work_queue, done,
                   pool_shutdown, caller, user, access, poolFrame>>

\* the pulse of this turn goes to every servo of the group and into their
\* stored positions
GroupWrite(w) ==
    /\ w \in running
    /\ w.task.kind = "group"
    /\ w.ph = "locked"
    /\ LET g == Group(w.task.ids, w.task.from, w.task.to,
                      RangeLen(w.task.from, w.task.to))
           a == PointNum(g, w.i) \div PointDen(g)
           p == AngleToPwm(a)
       IN  /\ pwm' = IF hw THEN Written(w.task.ids, p) ELSE pwm
           /\ pos' = [c \in DOMAIN pos |->
                         IF c \in w.task.ids THEN StoredPosition(p, a) ELSE pos[c]]
    /\ access' = [by |-> w.task, kind |-> "write", locked |-> state_lock = w.task]
    /\ running' = (running \ {w}) \cup {[w EXCEPT !.ph = "written"]}
    /\ UNCHANGED <<initialized, max_workers, work_queue, done, pool_shutdown,
                   caller, user, state_lock, pwm_lock, poolFrame>>

\* both locks are released; after the last turn the task ends
GroupRelease(w) ==
    /\ w \in running
    /\ w.task.kind = "group"
    /\ w.ph = "written"
    /\ pwm_lock' = NoTask
    /\ state_lock' = NoTask
    /\ IF w.i + 1 = RangeLen(w.task.from, w.task.to)
       THEN running' = running \ {w}
            /\ done' = done \cup {w.task}
       ELSE running' = (running \ {w}) \cup {[w EXCEPT !.ph = "turn", !.i = @ + 1]}
            /\ UNCHANGED done
    /\ UNCHANGED <<initialized, pos, pwm, max_workers, work_queue, pool_shutdown,
                   caller, user, access, poolFrame>>

\* the batches a thread of the application asks for while the controller is
\* shut down: a short move of one hip
UserBatches == {(5 :> 91 * Scale)}

\* an initialized controller with its device, at the default positions or
\* as an earlier set_servo_batch of one hip to 91 degrees left it; a thread
\* about to call shutdown(), another that may call set_servo_batch
PoolTables ==
    {DEFAULT_POSITIONS,
     [DEFAULT_POSITIONS EXCEPT ![5] = StoredPosition(AngleToPwm(91 * Scale), 91 * Scale)]}

InitPool ==
    /\ impl = "ctl"
    /\ hw = TRUE
    /\ initialized = TRUE
    /\ pos \in PoolTables
    /\ pos0 = pos
    /\ req = Empty
    /\ tgt = Empty
    /\ groups = {}
    /\ pwm = Empty
    /\ prev = Empty
    /\ nWrites = Empty
    /\ faulted = {}
    /\ op = [name |-> "none", result |-> "none"]
    /\ busy = FALSE
    /\ calls = 0
    /\ faults = 0
    /\ InitHeap
    /\ InitWebIdle
    /\ QueueIdle /\ CacheIdle /\ SensorIdle /\ ToolIdle /\ WalkIdle
    /\ max_workers \in 1..MaxWorkers
    /\ work_queue = << >>
    /\ running = {}
    /\ done = {}
    /\ pool_shutdown = FALSE
    /\ caller = "start"
    /\ user \in {[at |-> "idle", subs |-> {}], [at |-> "absent", subs |-> {}]}
    /\ state_lock = NoTask
    /\ pwm_lock = NoTask
    /\ access = NoAccess

NextPool ==
    \/ \E servo_angles \in UserBatches : UserBatch(servo_angles)
    \/ UserReturn
    \/ PoolShutdownCall
    \/ PoolShutdownSubmit
    \/ PoolShutdownWait
    \/ PoolCleanup
    \/ PoolJoined
    \/ PoolRelease
    \/ WorkerTake
    \/ \E w \in running : ConfigRun(w)
    \/ \E w \in running : BatchRun(w)
    \/ \E w \in running : BatchDone(w)
    \/ \E w \in running : GroupRun(w)
    \/ \E w \in running : GroupAcquire(w)
    \/ \E w \in running : GroupWrite(w)
    \/ \E w \in running : GroupRelease(w)

\* every thread that can take a step is scheduled: the callers and the
\* pool's worker threads are operating-system threads
SpecPool == InitPool /\ [][NextPool]_vars /\ WF_vars(NextPool)

(* ------------- BaseRobotController: the movement queue ---------------- *)
\* the number of queue_movement calls followed
MaxQueued == 3

queueFrame == <<moveVars, webVars, instVars, poolVars, cacheVars, sensorVars,
                toolVars, walkVars>>

\* position dictionaries and durations (tenths of a second) that are queued
QueueDicts == {Empty, (5 :> 100 * Scale), (5 :> 100 * Scale) @@ (6 :> 80 * Scale)}
Durations == {5, 10}

\* queue_movement(positions_dict, duration): append the pair
QueueMovement(positions_dict, duration) ==
    /\ Len(queued) < MaxQueued
    /\ movement_queue' = Append(movement_queue, <<positions_dict, duration>>)
    /\ queued' = Append(queued, <<positions_dict, duration>>)
    /\ queue_op' = [name |-> "queue_movement", result |-> "ok"]
    /\ UNCHANGED <<passed, queueFrame>>

\* the call execute_queue makes for one queued pair:
\* set_servos(positions, speed=duration/len(positions)), the speed kept as
\* the pair <<duration, len(positions)>>
SetServosCall(m) ==
    [positions |-> m[1], speed |-> <<m[2], Cardinality(DOMAIN m[1])>>]

\* execute_queue(): one set_servos call per queued pair, in order; the
\* division raises ZeroDivisionError at the first pair whose dictionary is
\* empty, before its set_servos call and before movement_queue.clear()
ExecuteQueue ==
    /\ Len(passed) <= MaxQueued
    /\ LET empties == {k \in 1..Len(movement_queue) :
                          DOMAIN movement_queue[k][1] = {}}
           stop == IF empties = {} THEN Len(movement_queue) + 1
                   ELSE CHOOSE k \in empties : \A j \in empties : k <= j
       IN  /\ passed' = passed \o [k \in 1..(stop - 1) |->
                                      SetServosCall(movement_queue[k])]
           /\ IF empties = {}
              THEN /\ movement_queue' = << >>
                   /\ queue_op' = [name |-> "execute_queue", result |-> "ok"]
              ELSE /\ UNCHANGED movement_queue
                   /\ queue_op' = [name |-> "execute_queue",
                                   result |-> "ZeroDivisionError"]
    /\ UNCHANGED <<queued, queueFrame>>

\* a controller derived from BaseRobotController, its queue empty
InitQueue == InitMove /\ impl = "mock"

NextQueue ==
    \/ \E positions_dict \in QueueDicts : \E duration \in Durations :
          QueueMovement(positions_dict, duration)
    \/ ExecuteQueue

SpecQueue == InitQueue /\ [][NextQueue]_vars

(* ----------------- web server (src/src): the caches -------------------- *)
moveButPos == <<impl, hw, initialized, pos0, req, tgt, groups, pwm, prev, nWrites,
                faulted, op, busy, calls, faults>>
cacheFrame == <<moveButPos, webVars, instVars, poolVars, queueVars, sensorVars,
                toolVars, walkVars>>

\* the table a fault-free set_servo_batch(servo_angles) leaves when it has
\* returned: each moving group stores the pulse of its last point, a group
\* whose start or end is no angle of 0..180 raises before it stores anything
AfterBatch(table, servo_angles) ==
    [c \in DOMAIN table |->
        IF c \notin DOMAIN servo_angles THEN table[c]
        ELSE LET to == ValidateServoParams(c, servo_angles[c])
             IN  IF table[c] # to /\ ValidAngle(table[c]) /\ ValidAngle(to)
                 THEN StoredPosition(AngleToPwm(to), to)
                 ELSE table[c]]

\* POST /api/servo: robot.set_servo under servo_lock, then every
\* get_all_servos entry of response_cache is deleted
CacheMoveServo(servo, angle) ==
    /\ robot_initialized
    /\ initialized
    /\ pos' = AfterBatch(pos, servo :> angle)
    /\ response_cache' = NoResponse
    /\ reported' = Empty
    /\ UNCHANGED <<get_servo_info_cache, cacheFrame>>

\* get_servo_info(servo_id) behind lru_cache(maxsize=32): the dict built at
\* the first call for a servo is what every later call returns
GetServoInfo(cache, servo_id) ==
    IF servo_id \in DOMAIN cache THEN cache[servo_id] ELSE pos[servo_id]

\* GET /api/servos behind cache_response(timeout=0.5): the cached response
\* while it is younger than half a second (fresh), otherwise a response built
\* from get_servo_info of every servo, which is then cached
GetAllServos(fresh) ==
    /\ robot_initialized
    /\ initialized
    /\ IF response_cache.cached /\ fresh
       THEN /\ reported' = response_cache.data
            /\ UNCHANGED <<response_cache, get_servo_info_cache>>
       ELSE LET servo_info == [id \in ServoIds |->
                                  GetServoInfo(get_servo_info_cache, id)]
            IN  /\ get_servo_info_cache' = servo_info
                /\ response_cache' = [cached |-> TRUE, data |-> servo_info]
                /\ reported' = servo_info
    /\ UNCHANGED <<pos, cacheFrame>>

CacheServos == {0, 5, 6}
CacheAngles == {91 * Scale, 100 * Scale}

\* the server with its robot initialized, nothing cached yet
InitCache ==
    /\ impl = "ctl"
    /\ hw = TRUE
    /\ initialized = TRUE
    /\ pos = DEFAULT_POSITIONS
    /\ pos0 = pos
    /\ req = Empty
    /\ tgt = Empty
    /\ groups = {}
    /\ pwm = Empty
    /\ prev = Empty
    /\ nWrites = Empty
    /\ faulted = {}
    /\ op = [name |-> "none", result |-> "none"]
    /\ busy = FALSE
    /\ calls = 0
    /\ faults = 0
    /\ InitHeap
    /\ robot_initialized = TRUE
    /\ servo_lock = NoThread
    /\ current_positions = DEFAULT_POSITIONS
    /\ pc = [t \in Threads |-> [at |-> "idle", ep |-> "none", left |-> 0]]
    /\ PoolIdle /\ QueueIdle /\ CacheIdle /\ SensorIdle /\ ToolIdle /\ WalkIdle

NextCache ==
    \/ \E servo \in CacheServos : \E angle \in CacheAngles : CacheMoveServo(servo, angle)
    \/ \E fresh \in BOOLEAN : GetAllServos(fresh)

SpecCache == InitCache /\ [][NextCache]_vars

(* ------------------------- MPU6050 sensor ----------------------------- *)
sensorFrame == <<moveVars, webVars, instVars, poolVars, queueVars, cacheVars,
                 toolVars, walkVars>>

\* what read_byte_data returns: one byte
Bytes == 0..255

\* (high << 8) | low of two bytes: the bits of low fill the eight that the
\* shift left empty
ShiftOr(high, low) == high * 256 + low

\* read_raw_data(addr): the two registers, combined, "if value > 32768:
\* value = value - 65536"
ReadRawData ==
    /\ ~value.read
    /\ value' = [read |-> TRUE,
                 data |-> IF ShiftOr(bus.high, bus.low) > 32768
                          THEN ShiftOr(bus.high, bus.low) - 65536
                          ELSE ShiftOr(bus.high, bus.low)]
    /\ UNCHANGED <<bus, sensorFrame>>

\* a sensor whose two registers hold any bytes, not yet read
InitSensor ==
    /\ InitMovers /\ impl = "mock"
    /\ PoolIdle /\ QueueIdle /\ CacheIdle /\ ToolIdle /\ WalkIdle
    /\ bus \in [high : Bytes, low : Bytes]
    /\ value = [read |-> FALSE, data |-> 0]

NextSensor == ReadRawData

SpecSensor == InitSensor /\ [][NextSensor]_vars

(* ------------ calibration tool: the interactive session --------------- *)
\* the number of commands typed that a run is followed for
MaxCommands == 6

toolFrame == <<moveButPos, webVars, instVars, poolVars, queueVars, cacheVars,
               sensorVars, walkVars>>

\* current_positions when set_servo(servo_index, angle) has returned True:
\* the angle as asked in simulation mode; with the device the clamped angle,
\* unless the servo is within the tolerance of it already
CalAfterSetServo(cache, ch, angle) ==
    IF ~hw THEN Put(cache, ch, angle)
    ELSE LET safe_angle == Clamp("cal", ch, angle)
             current_angle == Get(cache, ch, DefaultPosition)
         IN  IF AtTarget(current_angle, safe_angle) THEN cache
             ELSE Put(cache, ch, safe_angle)

\* calibrate_servo(servo_index), up to the first prompt: the servo is set to
\* current_positions.get(servo_index, 90)
CalibrateServo(servo_index) ==
    /\ impl = "cal"
    /\ session.ret # "running"
    /\ session.n < MaxCommands
    /\ LET current_angle == Get(pos, servo_index, DefaultPosition)
       IN  /\ pos' = CalAfterSetServo(pos, servo_index, current_angle)
           /\ commanded' = current_angle
           /\ session' = [servo |-> servo_index, current_angle |-> current_angle,
                          ret |-> "running", entry |-> calibration_data,
                          n |-> session.n]
    /\ UNCHANGED <<py_file, json_file, sys_modules, calibration_data, saved, toolFrame>>

\* the commands that change the angle, and by how many tenths of a degree:
\* + and = by 5 degrees, a digit by as many degrees, f and a digit by as
\* many tenths
Upward == {"+", "=", "1", "9", "f5"}
Adjustment(command) ==
    CASE command \in {"+", "="} -> 5 * Scale
      [] command = "1"  -> 1 * Scale
      [] command = "9"  -> 9 * Scale
      [] command = "f5" -> (5 * Scale) \div 10

\* current_angle = min(max_angle, current_angle + adjustment)
\* (a variant without the min, that C30 must reject)
RaisedUnchecked(max_angle, current_angle, adjustment) == current_angle + adjustment
Raised(max_angle, current_angle, adjustment) == Min(max_angle, current_angle + adjustment)

\* one command that moves the servo: the new angle is computed and given to
\* set_servo
MoveCommand(command) ==
    /\ impl = "cal"
    /\ session.ret = "running"
    /\ session.n < MaxCommands
    /\ LET min_angle == Limits("cal", session.servo)[1]
           max_angle == Limits("cal", session.servo)[2]
           current_angle ==
               CASE command \in Upward ->
                        Raised(max_angle, session.current_angle, Adjustment(command))
                 [] command = "-" -> Max(min_angle, session.current_angle - 5 * Scale)
                 [] command = "r" -> 90 * Scale
       IN  /\ session' = [session EXCEPT !.current_angle = current_angle, !.n = @ + 1]
           /\ commanded' = current_angle
           /\ pos' = CalAfterSetServo(pos, session.servo, current_angle)
    /\ UNCHANGED <<py_file, json_file, sys_modules, calibration_data, saved, toolFrame>>

\* l prints the limits, anything else prints "Invalid command"
ShowCommand ==
    /\ impl = "cal"
    /\ session.ret = "running"
    /\ session.n < MaxCommands
    /\ session' = [session EXCEPT !.n = @ + 1]
    /\ UNCHANGED <<pos, py_file, json_file, sys_modules, calibration_data, saved,
                   commanded, toolFrame>>

\* s returns current_angle, which main stores in calibration_data; q returns
\* None, which main drops
EndCommand(command) ==
    /\ impl = "cal"
    /\ session.ret = "running"
    /\ session.n < MaxCommands
    /\ IF command = "s"
       THEN /\ session' = [session EXCEPT !.ret = "saved", !.n = @ + 1]
            /\ calibration_data' = Put(calibration_data, session.servo,
                                       session.current_angle)
       ELSE /\ session' = [session EXCEPT !.ret = "quit", !.n = @ + 1]
            /\ UNCHANGED calibration_data
    /\ UNCHANGED <<pos, py_file, json_file, sys_modules, saved, commanded, toolFrame>>

ToolServos == {0, 5}

\* the tool just started, device present or simulation mode, nothing cached
InitCalibrate ==
    /\ InitMovers /\ impl = "cal"
    /\ PoolIdle /\ QueueIdle /\ CacheIdle /\ SensorIdle /\ ToolIdle /\ WalkIdle

NextCalibrate ==
    \/ \E servo_index \in ToolServos : CalibrateServo(servo_index)
    \/ \E command \in Upward \cup {"-", "r"} : MoveCommand(command)
    \/ ShowCommand
    \/ \E command \in {"s", "q"} : EndCommand(command)

SpecCalibrate == InitCalibrate /\ [][NextCalibrate]_vars

(* ------------ calibration tool: saving and loading -------------------- *)
\* f"{angle:.1f}": the angle rounded to a whole number of tenths of a degree,
\* and the float Python reads back from that text
Format1f(a) == (2 * a * 10 + Scale) \div (2 * Scale)
ParseFloat(tenths) == (tenths * Scale) \div 10

\* main, choice 2 with a servo whose calibrate_servo returned angle:
\* calibration_data[servo_index] = angle
MenuCalibrated(servo_index, angle) ==
    /\ impl = "cal"
    /\ session.ret = "menu"
    /\ calibration_data' = Put(calibration_data, servo_index, angle)
    /\ saved' = [saved EXCEPT !.loaded = FALSE]
    /\ UNCHANGED <<pos, py_file, json_file, sys_modules, session, commanded, toolFrame>>

\* main, choice 4: save_calibration(calibration_data) if there is any;
\* servo_calibration.py gets one "index: angle" line per entry, the JSON file
\* the dictionary itself under 'positions'
SaveCalibration ==
    /\ impl = "cal"
    /\ session.ret = "menu"
    /\ calibration_data # Empty
    /\ py_file' = [exists |-> TRUE,
                   data |-> [k \in DOMAIN calibration_data |->
                                Format1f(calibration_data[k])]]
    /\ json_file' = [exists |-> TRUE, data |-> calibration_data]
    /\ saved' = [any |-> TRUE, d |-> calibration_data, loaded |-> FALSE]
    /\ UNCHANGED <<pos, sys_modules, calibration_data, session, commanded, toolFrame>>

\* what "import servo_calibration" binds: the module already in sys.modules
\* if it was imported before in this run, else the file executed now, else
\* ImportError (nothing)
Imported ==
    IF sys_modules.exists THEN sys_modules
    ELSE IF py_file.exists
         THEN [exists |-> TRUE,
               data |-> [k \in DOMAIN py_file.data |-> ParseFloat(py_file.data[k])]]
         ELSE NoFile

\* load_existing_calibration(), at the start of main and on choice 5:
\* DEFAULT_POSITIONS of the imported module; if that is empty or the import
\* failed, the content of the JSON file
LoadExistingCalibration ==
    /\ impl = "cal"
    /\ session.ret \in {"none", "menu"}
    /\ sys_modules' = Imported
    /\ calibration_data' =
          IF Imported.exists /\ Imported.data # Empty THEN Imported.data
          ELSE IF json_file.exists
               THEN [k \in {"positions", "limits"} |->
                        IF k = "positions" THEN json_file.data
                        ELSE [ch \in ServoIds |-> SERVO_LIMITS(ch)]]
               ELSE Empty
    /\ saved' = [saved EXCEPT !.loaded = TRUE]
    /\ session' = [session EXCEPT !.ret = "menu"]
    /\ UNCHANGED <<pos, py_file, json_file, commanded, toolFrame>>

\* angles that sessions return
PersistAngles == {90 * Scale, 95 * Scale, 90 * Scale + 3}

\* the tool about to start: no calibration files, or those a previous run
\* saved
InitPersist ==
    /\ InitMovers /\ impl = "cal"
    /\ PoolIdle /\ QueueIdle /\ CacheIdle /\ SensorIdle /\ WalkIdle
    /\ \E d \in {Empty, (0 :> 90 * Scale)} :
          /\ py_file = IF d = Empty THEN NoFile
                       ELSE [exists |-> TRUE, data |-> [k \in DOMAIN d |-> Format1f(d[k])]]
          /\ json_file = IF d = Empty THEN NoFile ELSE [exists |-> TRUE, data |-> d]
    /\ sys_modules = NoFile
    /\ calibration_data = Empty
    /\ saved = NothingSaved
    /\ session = NoSession
    /\ commanded = DefaultPosition

NextPersist ==
    \/ \E servo_index \in ToolServos : \E angle \in PersistAngles :
          MenuCalibrated(servo_index, angle)
    \/ SaveCalibration
    \/ LoadExistingCalibration

SpecPersist == InitPersist /\ [][NextPersist]_vars

(* ------------- mock controllers: step_forward, walk_forward ------------ *)
\* the number of steps a walk_forward call is followed for
MaxSteps == 2

HIP_RIGHT == 5
HIP_LEFT == 6
KNEE_RIGHT == 7
KNEE_LEFT == 8
Legs == {HIP_RIGHT, HIP_LEFT, KNEE_RIGHT, KNEE_LEFT}

walkFrame == <<moveButPos, webVars, instVars, poolVars, queueVars, cacheVars,
               sensorVars, toolVars>>

\* (a step that ends without centring the hips, that C29 must reject)
StepForwardUncentred(k) ==
    <<<<HIP_RIGHT, 100>>, <<HIP_LEFT, 100>>, <<KNEE_LEFT, 120>>, <<HIP_LEFT, 70>>,
      <<KNEE_LEFT, 90>>, <<HIP_RIGHT, 80>>, <<HIP_LEFT, 80>>, <<KNEE_RIGHT, 120>>,
      <<HIP_RIGHT, 110>>, <<KNEE_RIGHT, 90>>, <<HIP_RIGHT, 110>>, <<HIP_LEFT, 80>>>>[k]

\* step_forward: its k-th set_servo call, <<servo, degrees>>
StepForward(k) ==
    <<<<HIP_RIGHT, 100>>, <<HIP_LEFT, 100>>, <<KNEE_LEFT, 120>>, <<HIP_LEFT, 70>>,
      <<KNEE_LEFT, 90>>, <<HIP_RIGHT, 80>>, <<HIP_LEFT, 80>>, <<KNEE_RIGHT, 120>>,
      <<HIP_RIGHT, 110>>, <<KNEE_RIGHT, 90>>, <<HIP_RIGHT, 90>>, <<HIP_LEFT, 90>>>>[k]

\* the calls of one step_forward
StepCalls == 12

\* a set_servo(ch, angle) call made while no walk is in progress (the walk
\* that had returned is then no longer the last thing done)
PoseServos == {0, HIP_RIGHT, KNEE_LEFT}
PoseAngles == {90 * Scale, 110 * Scale + 5}
MockPose(ch, angle) ==
    /\ impl = "mock"
    /\ walk.steps = -1 \/ walk.ret
    /\ pos' = AfterSetServo(pos, ch, angle)
    /\ walk' = NoWalk
    /\ UNCHANGED walkFrame

\* walk_forward(steps) is called: range(steps) is empty for steps = 0
WalkForward(steps) ==
    /\ impl = "mock"
    /\ walk.steps = -1 \/ walk.ret
    /\ walk' = [steps |-> steps, left |-> steps, at |-> 0, ret |-> steps = 0,
                entry |-> Empty, start |-> pos]
    /\ UNCHANGED <<pos, walkFrame>>

\* the next set_servo call of the step_forward in progress; after the last
\* one step_forward returns, and walk_forward with the last step
StepForwardCall ==
    /\ impl = "mock"
    /\ walk.left > 0
    /\ LET k == walk.at + 1
           call == StepForward(k)
       IN  /\ pos' = AfterSetServo(pos, call[1], call[2] * Scale)
           /\ walk' = [walk EXCEPT
                          !.entry = IF k = 1 THEN pos ELSE @,
                          !.at = IF k = StepCalls THEN 0 ELSE k,
                          !.left = IF k = StepCalls THEN @ - 1 ELSE @,
                          !.ret = k = StepCalls /\ walk.left = 1]
    /\ UNCHANGED walkFrame

InitStep == InitMove /\ impl = "mock"

NextStep ==
    \/ \E ch \in PoseServos : \E angle \in PoseAngles : MockPose(ch, angle)
    \/ \E steps \in 0..MaxSteps : WalkForward(steps)
    \/ StepForwardCall

SpecStep == InitStep /\ [][NextStep]_vars

Spec == SpecMove

(* ============================ properties ============================== *)
MoveOps == {"set_servo", "set_servo_batch"}
Returned == ~busy /\ op.name \in MoveOps /\ op.result = "ok"
WholeDegree(a) == (a \div Scale) * Scale
Lo(ch) == Limits(impl, ch)[1]
Hi(ch) == Limits(impl, ch)[2]
\* the clamp as the specification words it
Clamped(ch, a) == IF a < Lo(ch) THEN Lo(ch) ELSE IF a > Hi(ch) THEN Hi(ch) ELSE a
Stored(d, ch) == Get(d, ch, DefaultPosition)

\* the pulse the writer of this run emits for an angle
PulseOf(a) == IF impl = "cal" THEN CalPulse(a) ELSE AngleToPwm(a)
\* the pulse is that of an angle inside the channel's limits
PulseInLimits(ch, p) == p >= PulseOf(Lo(ch)) /\ p <= PulseOf(Hi(ch))
\* the angle a completed move ends on: the controllers step in whole degrees
FinalAngle(ch) == IF impl = "cal" THEN Clamped(ch, req[ch])
                  ELSE WholeDegree(Clamped(ch, req[ch]))

\* C1 (as amended): every pulse written during a move is the pulse of an
\* angle inside the channel's limits, and when a move that wrote anything has
\* completed, the last pulse written to a channel is the pulse of its clamped
\* target, truncated to a whole degree by the two controllers.
C1_WritesWithinLimits ==
    op.name \in MoveOps =>
        \A ch \in DOMAIN pwm :
            /\ PulseInLimits(ch, pwm[ch])
            /\ (Returned /\ faulted = {}) => pwm[ch] = PulseOf(FinalAngle(ch))

\* C1, reached: channel 0 (45..135) at 90 asked for 200 has had its 46
\* writes, the last one the pulse of 135
C1_Witness ==
    /\ impl \in {"ctl", "legacy"}
    /\ Returned
    /\ req = (0 :> 2000)
    /\ 0 \in DOMAIN pwm
    /\ pwm[0] = 358
    /\ nWrites[0] = 46

\* C1 as stated: the last pulse written is the pulse of the clamped target
C1_AsStated ==
    (Returned /\ faulted = {}) =>
        \A ch \in DOMAIN pwm :
            /\ PulseInLimits(ch, pwm[ch])
            /\ pwm[ch] = PulseOf(Clamped(ch, req[ch]))

\* C3 as stated: after a move to an angle within the limits has completed
\* without error, the stored position is within half a degree of that angle
C3_RoundTrip ==
    (impl \in {"ctl", "mock"} /\ Returned /\ faulted = {}) =>
        \A ch \in DOMAIN req :
            (req[ch] >= Lo(ch) /\ req[ch] <= Hi(ch)) =>
                /\ ch \in DOMAIN pos
                /\ Abs(pos[ch] - req[ch]) <= Tolerance

\* the channels of the batch that have to travel, and the longest travel
Moving == {ch \in DOMAIN tgt : pos0[ch] # tgt[ch]}
Travel(ch) == Abs(tgt[ch] - pos0[ch]) \div Scale
StepCount == CHOOSE m \in {Travel(ch) : ch \in Moving} :
                 \A ch \in Moving : Travel(ch) <= m
FirstBatch == impl = "ctl" /\ hw /\ op.name = "set_servo_batch"
              /\ \A ch \in DOMAIN tgt : ValidAngle(pos0[ch])

\* C4 as stated: a completed batch has written every moving channel once per
\* step of the one shared step count (the longest travel; the starting point
\* may count as a write), and the last pulse of each is that of its target
C4_SharedStepCount ==
    (FirstBatch /\ Returned /\ faulted = {}) =>
        \A ch \in Moving :
            /\ Get(nWrites, ch, 0) \in {StepCount, StepCount + 1}
            /\ Get(pwm, ch, 0) = AngleToPwm(tgt[ch])

\* C5 as stated: with the PWM device present, a channel whose stored angle
\* is within half a degree of the clamped target gets no write and keeps its
\* stored angle
C5_SkipAtTarget ==
    (hw /\ impl \in {"ctl", "legacy", "cal"} /\ op.name \in MoveOps) =>
        \A ch \in DOMAIN req :
            (HasLimits(impl, ch)
             /\ Abs(Stored(pos0, ch) - Clamped(ch, req[ch])) < Tolerance) =>
                /\ ch \notin DOMAIN pwm
                /\ Stored(pos, ch) = Stored(pos0, ch)

\* C6 (as amended): with the PWM device present, a completed move of a
\* channel from stored angle c to a different clamped target t has written it
\* |int(t) - int(c)| + 1 times, both ends counted; the controller whose stored
\* value is no angle of 0..180 has written nothing
C6_WriteCount ==
    (hw /\ impl \in {"ctl", "legacy"} /\ Returned /\ faulted = {}) =>
        \A ch \in DOMAIN tgt :
            Stored(pos0, ch) # tgt[ch] =>
                Get(nWrites, ch, 0) =
                    IF impl = "ctl" /\ ~ValidAngle(pos0[ch]) THEN 0
                    ELSE Abs(WholeDegree(tgt[ch]) - WholeDegree(Stored(pos0, ch)))
                            \div Scale + 1

\* C6, reached: the batch {5: 90 -> 120, 6: 90 -> 90} has completed, channel
\* 5 written 31 times and channel 6 not at all
C6_Witness ==
    /\ impl = "ctl"
    /\ hw
    /\ Returned
    /\ pos0[5] = 900 /\ pos0[6] = 900
    /\ tgt = (5 :> 1200 @@ 6 :> 900)
    /\ nWrites = (5 :> 31)

\* C6 as stated: exactly |t - c| writes
C6_AsStated ==
    (FirstBatch /\ Returned /\ faulted = {}) =>
        \A ch \in Moving : Get(nWrites, ch, 0) = Travel(ch)

\* C7 as stated: a released channel is no longer in the stored state, with
\* or without PWM hardware
C7_ReleaseForgets ==
    (impl = "cal" /\ op.name = "release") =>
        \A ch \in DOMAIN req : ch \notin DOMAIN pos /\ Stored(pos, ch) = DefaultPosition

\* C9 as stated: within a batch no channel gets the write of step N+1
\* before every moving channel has had the write of step N (or its last)
C9_StepOrder ==
    (FirstBatch /\ busy /\ faults = 0) =>
        \A a \in Moving : \A b \in Moving :
            Get(nWrites, a, 0) >= 2 =>
                Get(nWrites, b, 0) >= Min(nWrites[a] - 1, Travel(b) + 1)

\* C10 as stated: when a write failed for one channel, every other moving
\* channel of the batch has still been driven to its clamped target
C10_OthersComplete ==
    (FirstBatch /\ Returned /\ faulted # {}) =>
        \A ch \in Moving \ faulted : Get(pwm, ch, 0) = AngleToPwm(tgt[ch])

\* C2 (as amended): for a channel with a limit entry the clamp returns the
\* minimum below the limits, the maximum above them, and within them the
\* angle itself, which the RobotController truncates to a whole degree
C2_Clamp ==
    (op.name = "clamp" /\ op.result = "ok") =>
        \A ch \in DOMAIN req :
            tgt[ch] = IF req[ch] < Lo(ch) THEN Lo(ch)
                      ELSE IF req[ch] > Hi(ch) THEN Hi(ch)
                      ELSE IF impl = "ctl" THEN WholeDegree(req[ch])
                      ELSE req[ch]

\* C2, reached: the RobotController has clamped 89.6 on channel 0 to 89
C2_Witness ==
    /\ impl = "ctl"
    /\ op = [name |-> "clamp", result |-> "ok"]
    /\ req = (0 :> 896)
    /\ tgt = (0 :> 890)

\* C2 as stated: an angle within the limits is returned unchanged
C2_AsStated ==
    (op.name = "clamp" /\ op.result = "ok") =>
        \A ch \in DOMAIN req : tgt[ch] = Clamped(ch, req[ch])

\* C8 as stated: a thread inside a controller call holds servo_lock, and no
\* two threads are inside controller calls at the same time
C8_Serialized ==
    /\ \A t \in Threads : At(t, "acting") => servo_lock = t
    /\ Cardinality({t \in Threads : At(t, "acting")}) <= 1

\* C11 as stated: when a PWM write failed during a move, the call does not
\* return as if the move had succeeded
C11_FailureSurfaced ==
    (~busy /\ op.name \in MoveOps /\ faulted # {}) => op.result # "ok"

\* C12 as stated: a move addressed to a channel without a limit entry is
\* clamped against 0..180 and carried out, never rejected
C12_UnknownChannelMoves ==
    (hw /\ (impl = "ctl" => initialized) /\ ~busy /\ op.name \in MoveOps
        /\ faulted = {}) =>
        \A ch \in (DOMAIN req) \ ServoIds :
            /\ op.result = "ok"
            /\ ch \in DOMAIN tgt
            /\ tgt[ch] = Max(0, Min(180 * Scale, req[ch]))

\* C13: the conversion yields exactly the minimum pulse for 0 degrees and
\* exactly the maximum pulse for 180 degrees: 205 and 410 in the
\* controllers, 150 and 600 in the calibration tool
C13_PulseEndpoints ==
    (op.name = "angle_to_pwm" /\ op.result = "ok") =>
        /\ req[0] = 0 => pwm[0] = IF impl = "cal" THEN 150 ELSE 205
        /\ req[0] = 180 * Scale => pwm[0] = IF impl = "cal" THEN 600 ELSE 410

\* C13, reached: the controller has converted 180 degrees to 410
C13_Witness ==
    /\ impl = "ctl"
    /\ op = [name |-> "angle_to_pwm", result |-> "ok"]
    /\ req = (0 :> 180 * Scale)
    /\ pwm = (0 :> 410)

\* the pulse pair of the run's mover, and round() (half to even)
PulseLo == IF impl = "cal" THEN 150 ELSE 205
PulseSpan == IF impl = "cal" THEN 450 ELSE 205
RoundQ(n, m) ==
    LET q == n \div m
        r == n % m
    IN  IF 2 * r < m THEN q
        ELSE IF 2 * r > m THEN q + 1
        ELSE IF q % 2 = 0 THEN q ELSE q + 1

\* C14 (as amended): for every whole angle a of 0..180 the pulse computed is
\* min_pulse + (a / 180) * (max_pulse - min_pulse) truncated to an integer
\* (the floor), not the nearest integer
C14_PulseTruncates ==
    (op.name = "angle_to_pwm" /\ op.result = "ok" /\ req[0] <= 180 * Scale) =>
        pwm[0] = PulseLo + ((req[0] \div Scale) * PulseSpan) \div 180

\* C14, reached: 90 degrees has been converted to 307 (307.5 truncated)
C14_Witness ==
    /\ impl \in {"ctl", "legacy"}
    /\ op = [name |-> "angle_to_pwm", result |-> "ok"]
    /\ req = (0 :> 90 * Scale)
    /\ pwm = (0 :> 307)

\* C14 as stated: the pulse is the nearest integer count
C14_AsStated ==
    (op.name = "angle_to_pwm" /\ op.result = "ok" /\ req[0] <= 180 * Scale) =>
        pwm[0] = PulseLo + RoundQ((req[0] \div Scale) * PulseSpan, 180)

\* C15 as stated: of two consecutive moves of a channel, the first pulse
\* the second one writes is that of the angle the first one ended on, to
\* within one degree (two counts)
C15_StartsWhereEnded ==
    (impl \in {"ctl", "legacy"} /\ op.name \in MoveOps) =>
        \A ch \in (DOMAIN pwm) \cap (DOMAIN prev) :
            nWrites[ch] = 1 => Abs(pwm[ch] - prev[ch]) <= 2

\* C16: a move performed on one controller instance leaves the positions
\* stored in every other instance, and the module's default table, unchanged
C16_InstancesApart ==
    [][ /\ heap'[DefaultsRef] = heap[DefaultsRef]
        /\ \A i \in Instances : \A j \in Instances \ {i} :
              (inst[i] # NoRef /\ inst[j] # NoRef /\ inst' = inst
               /\ heap'[inst[i]] # heap[inst[i]]) =>
                  heap'[inst[j]] = heap[inst[j]] ]_vars

\* C16, reached: both instances exist, "a" has moved servo 0 and "b" still
\* holds the default positions
C16_Witness ==
    /\ inst["a"] # NoRef
    /\ inst["b"] # NoRef
    /\ heap[inst["a"]][0] # DefaultPosition
    /\ heap[inst["b"]] = DEFAULT_POSITIONS

\* C17 as stated: the position the web API reports for a servo is the
\* clamped angle of the last executed move (or the initial position), so it
\* always lies within the servo's limits
C17_ReportedWithinLimits ==
    \A servo \in DOMAIN current_positions :
        /\ current_positions[servo] >= SERVO_LIMITS(servo)[1] * Scale
        /\ current_positions[servo] <= SERVO_LIMITS(servo)[2] * Scale

\* C18 as stated: when shutdown() has returned, the flag is false, no move
\* loop it started is still running, and with a PWM device the last write
\* on every channel 0..15 is the release (0, 0)
C18_ShutdownReleasesAll ==
    (impl = "ctl" /\ op.name = "shutdown" /\ ~busy) =>
        /\ ~initialized
        /\ \A g \in groups : ~Live(g)
        /\ hw => \A ch \in Channels : ch \in DOMAIN pwm /\ pwm[ch] = 0

\* C19 as stated: initialize_robot() returns without raising and leaves the
\* controller initialized
C19_InitializeSucceeds ==
    (impl = "ctl" /\ op.name = "initialize_robot") =>
        op.result = "ok" /\ initialized

\* C20: while the web server's flag is false, a request to a movement
\* endpoint is answered 400 and its handler never goes for the controller;
\* only the init and shutdown endpoints get through
C20_RefusedUntilInitialized ==
    [][ \A t \in Handlers :
           (~robot_initialized /\ At(t, "idle") /\ pc'[t] # pc[t]) =>
               \/ pc'[t].ep \in {"init", "shutdown"}
               \/ pc'[t] = [at |-> "idle", ep |-> "400", left |-> 0] ]_vars

\* C20, reached: after a shutdown that succeeded the flag is false and a
\* movement request of another handler has been answered 400
C20_Witness ==
    /\ ~robot_initialized
    /\ pc["t2"] = [at |-> "idle", ep |-> "shutdown", left |-> 0]
    /\ pc["t1"] = [at |-> "idle", ep |-> "400", left |-> 0]


\* C22: a set_servo_batch call whose batch names an unknown servo id raises,
\* and a call that raised (unknown id, or controller not initialized) has
\* issued no PWM write and changed no stored position, the known channels of
\* the batch included.
C22_ValidatedBeforeMoving ==
    (impl = "ctl" /\ op.name = "set_servo_batch") =>
        /\ (\E id \in DOMAIN req : id \notin DOMAIN pos) =>
               op.result \in {"ServoError", "RobotControllerError"}
        /\ op.result \in {"ServoError", "RobotControllerError"} =>
               /\ pwm = Empty
               /\ nWrites = Empty
               /\ pos = pos0
               /\ ~busy

\* a batch of a known and an unknown channel was refused by an initialized
\* controller, after an earlier call had moved the known channel off its default
C22_Witness ==
    /\ impl = "ctl"
    /\ initialized
    /\ op = [name |-> "set_servo_batch", result |-> "ServoError"]
    /\ DOMAIN req = {5, 13}
    /\ pos[5] # DEFAULT_POSITIONS[5]
    /\ calls = 2


\* C21: every read and every write of the servo state table is made by a
\* thread that holds _state_lock at that moment, the read of the current
\* positions in set_servo_batch included.
C21_TableAccessLocked == access.locked

\* C28: shutdown() called on an initialized controller returns, whatever the
\* size of the pool: once called it eventually reaches its end.
C28_ShutdownTerminates == (caller = "start") ~> (caller = "returned")


\* C23: when execute_queue() was the last queue operation, the movement queue
\* is empty and the dictionaries passed to set_servos so far are exactly the
\* dictionaries queued so far, each once and in the order they were queued.
C23_QueueExecutedOnce ==
    queue_op.name = "execute_queue" =>
        /\ movement_queue = << >>
        /\ [k \in 1..Len(passed) |-> passed[k].positions]
              = [k \in 1..Len(queued) |-> queued[k][1]]


\* C24: the positions in the answer of a GET /api/servos made after the last
\* completed POST /api/servo are the positions stored at that moment: no
\* cache serves an older one.
C24_ServosNotStale ==
    \A id \in DOMAIN reported : reported[id] = pos[id]


\* C25: whatever two bytes the registers hold, read_raw_data returns their
\* signed 16-bit two's-complement value, a number of -32768..32767.
C25_SignedSixteenBit ==
    value.read =>
        /\ value.data \in -32768..32767
        /\ (value.data - (bus.high * 256 + bus.low)) % 65536 = 0


\* C30: during calibrate_servo every angle given to set_servo is within the
\* limits of the servo being calibrated, so is the angle that s returns and
\* main stores; after q the calibration data is what it was on entry.
C30_SessionWithinLimits ==
    session.ret # "none" =>
        LET min_angle == SERVO_LIMITS(session.servo)[1] * Scale
            max_angle == SERVO_LIMITS(session.servo)[2] * Scale
        IN  /\ min_angle <= commanded /\ commanded <= max_angle
            /\ session.ret = "saved" =>
                   /\ calibration_data[session.servo] = session.current_angle
                   /\ min_angle <= calibration_data[session.servo]
                   /\ calibration_data[session.servo] <= max_angle
            /\ session.ret = "quit" => calibration_data = session.entry

\* the head servo was driven up to its upper limit and that angle was saved
C30_Witness ==
    /\ session.servo = 0
    /\ session.ret = "saved"
    /\ calibration_data[0] = 135 * Scale
    /\ pos[0] = 135 * Scale


C27_NoMoveAfterShutdown ==
    (/\ ~robot_initialized
     /\ \E u \in Handlers : pc[u] = [at |-> "idle", ep |-> "shutdown", left |-> 0])
    => \A t \in Handlers : ~(At(t, "acting") /\ pc[t].ep \in Guarded)

\* C29: a step_forward entered with both hips and both knees stored at 90
\* leaves, when it has returned, every stored angle as it was on entry (the
\* four leg channels at 90 again, no other channel changed); and a
\* walk_forward(n), n >= 0, entered in such a pose has returned with the
\* stored pose it was called with.
Neutral(d) == \A ch \in Legs : d[ch] = DefaultPosition
C29_StepPreservesPose ==
    /\ (walk.steps > walk.left /\ walk.at = 0 /\ Neutral(walk.entry)) =>
          pos = walk.entry
    /\ (walk.ret /\ Neutral(walk.start)) => pos = walk.start

\* C29, reached: a walk_forward(2) called in the neutral leg pose with the
\* head away from its default has returned
C29_Witness ==
    /\ walk.ret
    /\ walk.steps = 2
    /\ Neutral(walk.start)
    /\ walk.start[0] # DefaultPosition


====
